---- MODULE Spec2Model ----
(***************************************************************************)
(* Video-generation task orchestrator of the HeyGen Telegram bot.          *)
(*                                                                         *)
(* The model follows bot/services/video_service.py (VideoService),         *)
(* bot/services/heygen_api.py (HeyGenAPI.wait_for_video),                  *)
(* bot/database/database.py (Database) and the calling flow in             *)
(* bot/handlers/conversation.py.  Every coroutine is cut at its awaits:    *)
(* one action is the code between two suspension points together with the  *)
(* repository or provider call that ends it.  A repository call is one     *)
(* session (one transaction) and is one step.                              *)
(***************************************************************************)
EXTENDS Integers, Sequences, FiniteSets, TLC

(* ---- bounds of the model ---- *)
MaxFlows == 2
MaxUsers == 2
MaxRetries == 4
MaxInitialDelay == 2
MaxStoredTasks == 3
MaxInputLen == 4

(* ---- configuration (bot/config.py reads these from the environment;     *)
(*      the model runs with a small interval and timeout) ---- *)
VIDEO_CHECK_INTERVAL == 1
VIDEO_GENERATION_TIMEOUT == 2
STATUS_CALL_TIMEOUT == 1
MAX_DAILY_REQUESTS == 2
MAX_CONCURRENT_TASKS == 1
MAX_TEXT_LENGTH == 3

(* lengths written in the code, scaled the same way *)
MAX_ID_LENGTH == 3
TALKING_PHOTO_ID_LEN == 2
PREVIEW_LENGTH == 2

Flows == 1..MaxFlows
TaskIds == 1..MaxFlows
UserIds == 1..MaxUsers

None == "None"
Truthy(x) == x /= None /\ x /= ""

ErrSubmit == "submit_failed_detail"
ErrWait == "timeout_or_failed_detail"
ErrCancelled == "cancelled_by_user"
ErrDb == "db_error"
ErrConcurrent == "concurrent_limit"
ErrDaily == "daily_limit"

ActiveStatuses == {"pending", "processing"}
TerminalStatuses == {"completed", "failed"}

VARIABLES
    tasks,        \* video_tasks table: task_id -> row
    users,        \* users table: user_id -> row
    pc,           \* per calling flow: position in the handler / in run
    flow_user,    \* per flow: update.effective_user.id
    task_id,      \* per flow: the task id the handler got from create_video_task
    video_id,     \* per flow: local video_id of generate_video
    elapsed,      \* per flow: loop time since start_time in wait_for_video
    status_data,  \* per flow: local status_data of wait_for_video
    video_url,    \* per flow: local video_url of generate_video
    inc_val,      \* per flow: total_videos_generated as loaded by increment_user_videos
    result,       \* per flow: what the service call awaited by the handler returned
    cancel,       \* the cancel_task invocation in progress
    submits,      \* history: heygen generate_video calls issued per flow
    incs,         \* history: counter writes per flow
    cancelHit,    \* history: a cancel wrote to this task
    cancelInLoop, \* history: a cancel wrote to this task while its run was polling
    retry,        \* the retry_with_backoff invocation in progress
    conv,         \* the conversation of one chat: state, user_data, last reply
    files,        \* TEMP_VIDEO_DIR: the paths that exist on disk
    video_path    \* per flow: local video_path of the handler

vars == <<tasks, users, pc, flow_user, task_id, video_id, elapsed, status_data,
          video_url, inc_val, result, cancel, submits, incs, cancelHit,
          cancelInLoop, retry, conv, files, video_path>>

runLocals == <<video_id, elapsed, status_data, video_url, inc_val>>
flowVars == <<pc, flow_user, task_id, result, runLocals>>
cancelHist == <<cancelHit, cancelInLoop>>
runHist == <<submits, incs>>

(* ---- rows ---- *)
(* strings the code looks into are sequences of characters *)
NoString == << >>

(* VideoTask(user_id, avatar_id, voice_id, input_text, status='pending') *)
NewTaskOf(u, a, v, t) ==
    [user_id |-> u, avatar_id |-> a, voice_id |-> v, input_text |-> t,
     status |-> "pending", heygen_video_id |-> None,
     video_url |-> None, error_message |-> None, completed_at |-> None,
     created_at |-> "today"]

(* the request of a flow whose ids and text play no part *)
SomeAvatar == <<"g">>
SomeVoice == <<"a">>
SomeText == <<"x">>

NewTask(u) == NewTaskOf(u, SomeAvatar, SomeVoice, SomeText)

NewUser == [total_videos_generated |-> 0, last_request_date |-> None]

NoData == [ok |-> FALSE, status |-> None, video_url |-> None, error |-> None]

(* task_id = None of cancel_task, among integer task ids *)
NoTaskId == -1

IdleCancel ==
    [pc |-> "idle", user_id |-> 0, task_id |-> NoTaskId, remaining |-> {},
     count |-> 0, result |-> None]

(* a chat outside the conversation, user_data empty *)
IdleConv ==
    [state |-> "END", token |-> NoString, avatar_id |-> NoString,
     voice_id |-> NoString, reply |-> None, task_id |-> 0,
     summary |-> [user_id |-> 0, entries |-> {}],
     submitted |-> [kind |-> None, id |-> NoString, voice_id |-> NoString,
                    input_text |-> NoString]]

(* video_path = None; a path is <<task_id, heygen_video_id>> *)
NoPath == << >>

IdleRetry ==
    [pc |-> "idle", max_retries |-> 0, initial_delay |-> 0, attempt |-> 0,
     delay |-> 0, last_exception |-> None, calls |-> 0, waited |-> 0,
     slept |-> << >>, outcome |-> None, value |-> None]


(* ---- the repository ---- *)
SetMax(S) == CHOOSE m \in S : \A x \in S : x <= m

NextTaskId(tk) == IF DOMAIN tk = {} THEN 1 ELSE SetMax(DOMAIN tk) + 1

GetOrCreateUser(us, u) ==
    IF u \in DOMAIN us THEN us
    ELSE [x \in DOMAIN us \cup {u} |-> IF x = u THEN NewUser ELSE us[x]]

CreateVideoTask(tk, u) ==
    LET id == NextTaskId(tk)
    IN [x \in DOMAIN tk \cup {id} |-> IF x = id THEN NewTask(u) ELSE tk[x]]

(* update_task_status with the heygen_video_id assignment left out *)
UpdateTaskStatusNoRenderId(tk, tid, status, hv, vu, em) ==
    IF tid \notin DOMAIN tk THEN tk
    ELSE [tk EXCEPT ![tid] =
            [@ EXCEPT !.status = status,
                      !.video_url = IF Truthy(vu) THEN vu ELSE @,
                      !.error_message = IF Truthy(em) THEN em ELSE @,
                      !.completed_at = IF status = "completed" THEN "set" ELSE @]]

UpdateTaskStatus(tk, tid, status, hv, vu, em) ==
    IF tid \notin DOMAIN tk THEN tk
    ELSE [tk EXCEPT ![tid] =
            [@ EXCEPT !.status = status,
                      !.heygen_video_id = IF Truthy(hv) THEN hv ELSE @,
                      !.video_url = IF Truthy(vu) THEN vu ELSE @,
                      !.error_message = IF Truthy(em) THEN em ELSE @,
                      !.completed_at = IF status = "completed" THEN "set" ELSE @]]

GetUserActiveTasks(tk, u) ==
    {t \in DOMAIN tk : tk[t].user_id = u /\ tk[t].status \in ActiveStatuses}

GetUserActiveTasksCount(tk, u) == Cardinality(GetUserActiveTasks(tk, u))

(* created_at >= today_start, tasks of every status *)
GetUserDailyRequests(tk, u) ==
    Cardinality({t \in DOMAIN tk : tk[t].user_id = u /\ tk[t].created_at = "today"})


(* no handler has run yet *)
InitCallers ==
    /\ pc = [f \in Flows |-> "idle"]
    /\ flow_user = [f \in Flows |-> 0]
    /\ task_id = [f \in Flows |-> 0]
    /\ video_id = [f \in Flows |-> None]
    /\ elapsed = [f \in Flows |-> 0]
    /\ status_data = [f \in Flows |-> NoData]
    /\ video_url = [f \in Flows |-> None]
    /\ inc_val = [f \in Flows |-> 0]
    /\ result = [f \in Flows |-> None]
    /\ cancel = IdleCancel
    /\ submits = [f \in Flows |-> 0]
    /\ incs = [f \in Flows |-> 0]
    /\ cancelHit = [t \in TaskIds |-> FALSE]
    /\ cancelInLoop = [t \in TaskIds |-> FALSE]
    /\ retry = IdleRetry
    /\ conv = IdleConv
    /\ files = {}
    /\ video_path = [f \in Flows |-> NoPath]

Init ==
    /\ tasks = << >>
    /\ users = << >>
    /\ InitCallers

(* ---- the rendering provider ---- *)
SubmitAnswers == {"vid", None, ""}

PollAnswers ==
    { NoData,
      [ok |-> TRUE, status |-> "pending", video_url |-> None, error |-> None],
      [ok |-> TRUE, status |-> "processing", video_url |-> None, error |-> None],
      [ok |-> TRUE, status |-> "completed", video_url |-> "url", error |-> None],
      [ok |-> TRUE, status |-> "completed", video_url |-> None, error |-> None],
      [ok |-> TRUE, status |-> "failed", video_url |-> None, error |-> "render_error"],
      [ok |-> TRUE, status |-> "waiting", video_url |-> None, error |-> None] }

(* ---- positions of a coroutine ---- *)
Goto(f, p) == pc' = [pc EXCEPT ![f] = p]

(* the locals of generate_video and wait_for_video end with the call *)
ClearLocals(f) ==
    /\ video_id' = [video_id EXCEPT ![f] = None]
    /\ elapsed' = [elapsed EXCEPT ![f] = 0]
    /\ status_data' = [status_data EXCEPT ![f] = NoData]
    /\ video_url' = [video_url EXCEPT ![f] = None]
    /\ inc_val' = [inc_val EXCEPT ![f] = 0]

Return(f, r) ==
    /\ Goto(f, "returned")
    /\ result' = [result EXCEPT ![f] = r]
    /\ ClearLocals(f)

(* an exception leaves generate_video *)
Raise(f) ==
    /\ Goto(f, "raised")
    /\ result' = result
    /\ ClearLocals(f)

(* an exception inside the try block reaches the except block *)
ToExcept(f) ==
    /\ Goto(f, "except")
    /\ result' = result
    /\ ClearLocals(f)

(* ---- HeyGenAPI.wait_for_video, the code between its awaits ---- *)
(* the timeout test with the interval added to the budget *)
TimedOutLate(e) == e > VIDEO_GENERATION_TIMEOUT + VIDEO_CHECK_INTERVAL

TimedOut(e) == e > VIDEO_GENERATION_TIMEOUT

(* a missing answer treated as the end of the loop *)
WaitReturnsOnNoAnswer(sd) == ~sd.ok \/ sd.status \in {"completed", "failed"}

WaitReturns(sd) == sd.ok /\ sd.status \in {"completed", "failed"}

WaitValue(sd) == IF sd.status = "completed" THEN sd.video_url ELSE None

(* generate_video after wait_for_video returned v *)
AfterWait(v) == IF Truthy(v) THEN "save_completed" ELSE "save_failed"

(* top of the while loop at loop time e: give up, or issue the next poll *)
LoopTop(f, e) == Goto(f, IF TimedOut(e) THEN AfterWait(None) ELSE "polling")

(* ---- the calling flow: conversation.generate_video ---- *)
(* Flows start in the order of their index and flow f is of one of the     *)
(* users 1..f: flows and user ids are interchangeable, so this loses no    *)
(* behaviour.                                                              *)
StartFlow(f, u) ==
    /\ pc[f] = "idle"
    /\ \A g \in Flows : g < f => pc[g] /= "idle"
    /\ u <= f
    /\ flow_user' = [flow_user EXCEPT ![f] = u]
    /\ \/ /\ users' = GetOrCreateUser(users, u)
          /\ tasks' = CreateVideoTask(tasks, u)
          /\ task_id' = [task_id EXCEPT ![f] = NextTaskId(tasks)]
          /\ Goto(f, "notify")
       \/ /\ users' = users
          /\ Goto(f, "handler_error")
          /\ UNCHANGED <<tasks, task_id>>
    /\ UNCHANGED <<result, runLocals, cancel, runHist, cancelHist>>
    /\ UNCHANGED <<retry, conv, files, video_path>>

NotifyStarted(f) ==
    /\ pc[f] = "notify"
    /\ \/ Goto(f, "load")
       \/ Goto(f, "handler_error")
    /\ UNCHANGED <<tasks, users, flow_user, task_id, result, runLocals, cancel,
                   runHist, cancelHist>>
    /\ UNCHANGED <<retry, conv, files, video_path>>

(* ---- VideoService.can_user_generate_video and its callers ---- *)
(* the limit tests with > in place of >= *)
OverConcurrentLimitStrict(n) == n > MAX_CONCURRENT_TASKS

OverConcurrentLimit(n) == n >= MAX_CONCURRENT_TASKS

OverDailyLimitStrict(n) == n > MAX_DAILY_REQUESTS

OverDailyLimit(n) == n >= MAX_DAILY_REQUESTS

(* an exception of a repository call leaves can_user_generate_video and    *)
(* the handler that awaits it                                              *)
EligRaise(f) ==
    /\ Goto(f, "elig_raised")
    /\ result' = result

(* the check with get_or_create_user called first *)
EligCheckActiveCreatingUser(f, u) ==
    /\ pc[f] = "idle"
    /\ \A g \in Flows : g < f => pc[g] /= "idle"
    /\ u <= f
    /\ flow_user' = [flow_user EXCEPT ![f] = u]
    /\ users' = GetOrCreateUser(users, u)
    /\ \/ IF OverConcurrentLimit(GetUserActiveTasksCount(tasks, u))
          THEN /\ Goto(f, "ineligible")
               /\ result' = [result EXCEPT ![f] = ErrConcurrent]
          ELSE /\ Goto(f, "elig_daily")
               /\ result' = result
       \/ EligRaise(f)
    /\ UNCHANGED <<tasks, task_id, runLocals, cancel, runHist, cancelHist, retry, conv, files, video_path>>

(* generate_command / handle_regular_message call the check for the       *)
(* user of the update; the check reads the active count and tests it       *)
EligCheckActive(f, u) ==
    /\ pc[f] = "idle"
    /\ \A g \in Flows : g < f => pc[g] /= "idle"
    /\ u <= f
    /\ flow_user' = [flow_user EXCEPT ![f] = u]
    /\ \/ IF OverConcurrentLimit(GetUserActiveTasksCount(tasks, u))
          THEN /\ Goto(f, "ineligible")
               /\ result' = [result EXCEPT ![f] = ErrConcurrent]
          ELSE /\ Goto(f, "elig_daily")
               /\ result' = result
       \/ EligRaise(f)
    /\ UNCHANGED <<tasks, users, task_id, runLocals, cancel, runHist, cancelHist,
                   retry, conv, files, video_path>>

(* the check reads the daily count, tests it and returns *)
EligCheckDaily(f) ==
    /\ pc[f] = "elig_daily"
    /\ \/ IF OverDailyLimit(GetUserDailyRequests(tasks, flow_user[f]))
          THEN /\ Goto(f, "ineligible")
               /\ result' = [result EXCEPT ![f] = ErrDaily]
          ELSE /\ Goto(f, "eligible")
               /\ result' = [result EXCEPT ![f] = "eligible"]
       \/ EligRaise(f)
    /\ UNCHANGED <<tasks, users, flow_user, task_id, runLocals, cancel, runHist,
                   cancelHist, retry, conv, files, video_path>>

(* the flow that was found eligible reaches conversation.generate_video *)
CheckedStart(f) ==
    /\ pc[f] = "eligible"
    /\ \/ /\ users' = GetOrCreateUser(users, flow_user[f])
          /\ tasks' = CreateVideoTask(tasks, flow_user[f])
          /\ task_id' = [task_id EXCEPT ![f] = NextTaskId(tasks)]
          /\ Goto(f, "notify")
       \/ /\ Goto(f, "handler_error")
          /\ UNCHANGED <<tasks, users, task_id>>
    /\ result' = [result EXCEPT ![f] = None]
    /\ UNCHANGED <<flow_user, runLocals, cancel, runHist, cancelHist, retry, conv, files, video_path>>

(* ---- VideoService.generate_video ---- *)
(* generate_video after heygen_api.generate_video returned v *)
(* "is None" in place of the truth test on video_id *)
AfterSubmitNoneOnly(v) == IF v /= None THEN "save_processing" ELSE "save_submit_failed"

AfterSubmit(v) == IF Truthy(v) THEN "save_processing" ELSE "save_submit_failed"

(* the load taken to have found a row whatever the table holds *)
TaskFoundAlways(tk, tid) == TRUE

(* task = await db.get_task_by_id(task_id); "if not task" is its negation *)
TaskFound(tk, tid) == tid \in DOMAIN tk

RunLoad(f) ==
    /\ pc[f] = "load"
    /\ \/ IF TaskFound(tasks, task_id[f])
          THEN Goto(f, "submit") /\ UNCHANGED <<result, runLocals>>
          ELSE Return(f, "not_found")
       \/ Raise(f)
    /\ UNCHANGED <<tasks, users, flow_user, task_id, cancel, runHist, cancelHist>>
    /\ UNCHANGED <<retry, conv, files, video_path>>

RunSubmit(f) ==
    /\ pc[f] = "submit"
    /\ \E v \in SubmitAnswers :
          /\ video_id' = [video_id EXCEPT ![f] = v]
          /\ Goto(f, AfterSubmit(v))
    /\ submits' = [submits EXCEPT ![f] = @ + 1]
    /\ UNCHANGED <<tasks, users, flow_user, task_id, elapsed, status_data,
                   video_url, inc_val, result, cancel, incs, cancelHist>>
    /\ UNCHANGED <<retry, conv, files, video_path>>

(* a repository call inside the try block raises (its transaction is      *)
(* rolled back) and control reaches the except block                       *)
RunDbRaise(f, written) ==
    /\ tasks' = tasks
    /\ ToExcept(f)

RunSaveSubmitFailed(f) ==
    /\ pc[f] = "save_submit_failed"
    /\ LET written == UpdateTaskStatus(tasks, task_id[f], "failed", None, None, ErrSubmit)
       IN \/ /\ tasks' = written
             /\ Return(f, "submit_failed")
          \/ RunDbRaise(f, written)
    /\ UNCHANGED <<users, flow_user, task_id, cancel, runHist, cancelHist>>
    /\ UNCHANGED <<retry, conv, files, video_path>>

RunSaveProcessing(f) ==
    /\ pc[f] = "save_processing"
    /\ LET written == UpdateTaskStatus(tasks, task_id[f], "processing", video_id[f], None, None)
       IN \/ /\ tasks' = written
             /\ LoopTop(f, 0)
             /\ UNCHANGED <<result, runLocals>>
          \/ RunDbRaise(f, written)
    /\ UNCHANGED <<users, flow_user, task_id, cancel, runHist, cancelHist>>
    /\ UNCHANGED <<retry, conv, files, video_path>>

(* get_video_status answers after d seconds; the loop branches on the answer *)
PollReturn(f) ==
    /\ pc[f] = "polling"
    /\ \E sd \in PollAnswers, d \in 0..STATUS_CALL_TIMEOUT :
          /\ elapsed' = [elapsed EXCEPT ![f] = @ + d]
          /\ IF WaitReturns(sd)
             THEN /\ Goto(f, AfterWait(WaitValue(sd)))
                  /\ video_url' = [video_url EXCEPT ![f] = WaitValue(sd)]
             ELSE /\ Goto(f, "sleeping")
                  /\ video_url' = video_url
          /\ status_data' = [status_data EXCEPT ![f] = sd]
    /\ UNCHANGED <<tasks, users, flow_user, task_id, video_id, inc_val, result,
                   cancel, runHist, cancelHist>>
    /\ UNCHANGED <<retry, conv, files, video_path>>

(* asyncio.sleep(check_interval) ends; back to the top of the loop, where  *)
(* status_data is not read before the next answer replaces it               *)
SleepDone(f) ==
    /\ pc[f] = "sleeping"
    /\ elapsed' = [elapsed EXCEPT ![f] = @ + VIDEO_CHECK_INTERVAL]
    /\ LoopTop(f, elapsed[f] + VIDEO_CHECK_INTERVAL)
    /\ status_data' = [status_data EXCEPT ![f] = NoData]
    /\ UNCHANGED <<tasks, users, flow_user, task_id, video_id, video_url,
                   inc_val, result, cancel, runHist, cancelHist>>
    /\ UNCHANGED <<retry, conv, files, video_path>>

RunSaveFailed(f) ==
    /\ pc[f] = "save_failed"
    /\ LET written == UpdateTaskStatus(tasks, task_id[f], "failed", None, None, ErrWait)
       IN \/ /\ tasks' = written
             /\ Return(f, "wait_failed")
          \/ RunDbRaise(f, written)
    /\ UNCHANGED <<users, flow_user, task_id, cancel, runHist, cancelHist>>
    /\ UNCHANGED <<retry, conv, files, video_path>>

RunSaveCompleted(f) ==
    /\ pc[f] = "save_completed"
    /\ LET written == UpdateTaskStatus(tasks, task_id[f], "completed", None, video_url[f], None)
       IN \/ /\ tasks' = written
             /\ Goto(f, "inc_read")
             /\ ClearLocals(f)
             /\ result' = result
          \/ RunDbRaise(f, written)
    /\ UNCHANGED <<users, flow_user, task_id, cancel, runHist, cancelHist>>
    /\ UNCHANGED <<retry, conv, files, video_path>>

(* Database.increment_user_videos: the select, then the commit of value + 1 *)
RunIncRead(f) ==
    /\ pc[f] = "inc_read"
    /\ \/ IF flow_user[f] \in DOMAIN users
          THEN /\ inc_val' = [inc_val EXCEPT ![f] =
                                users[flow_user[f]].total_videos_generated]
               /\ Goto(f, "inc_write")
               /\ UNCHANGED <<video_id, elapsed, status_data, video_url, result>>
          ELSE Return(f, "success")
       \/ ToExcept(f)
    /\ UNCHANGED <<tasks, users, flow_user, task_id, cancel, runHist, cancelHist>>
    /\ UNCHANGED <<retry, conv, files, video_path>>

(* the counter written back without the + 1 *)
IncrementWriteNoAdd(us, u, loaded) ==
    [us EXCEPT ![u] = [@ EXCEPT !.total_videos_generated = loaded,
                                !.last_request_date = "set"]]

IncrementWrite(us, u, loaded) ==
    [us EXCEPT ![u] = [@ EXCEPT !.total_videos_generated = loaded + 1,
                                !.last_request_date = "set"]]

RunIncWrite(f) ==
    /\ pc[f] = "inc_write"
    /\ \/ /\ users' = IncrementWrite(users, flow_user[f], inc_val[f])
          /\ incs' = [incs EXCEPT ![f] = @ + 1]
          /\ Return(f, "success")
       \/ /\ ToExcept(f)
          /\ UNCHANGED <<users, incs>>
    /\ UNCHANGED <<tasks, flow_user, task_id, cancel, submits, cancelHist>>
    /\ UNCHANGED <<retry, conv, files, video_path>>

(* the except block: persist failed with str(e), or raise from there *)
RunExcept(f) ==
    /\ pc[f] = "except"
    /\ LET written == UpdateTaskStatus(tasks, task_id[f], "failed", None, None, ErrDb)
       IN \/ /\ tasks' = written
             /\ Return(f, "error")
          \/ /\ tasks' = tasks
             /\ Raise(f)
    /\ UNCHANGED <<users, flow_user, task_id, cancel, runHist, cancelHist>>
    /\ UNCHANGED <<retry, conv, files, video_path>>

(* ---- VideoService.cancel_task ---- *)
CancelFree == cancel.pc \in {"idle", "done", "raised"}

RunInLoop(tid) == \E f \in Flows : task_id[f] = tid /\ pc[f] \in {"polling", "sleeping"}

(* the cancel write applied to every task of the table *)
CancelWriteEveryTask(tk, tid) ==
    [t \in DOMAIN tk |->
        [tk[t] EXCEPT !.status = "failed", !.error_message = ErrCancelled]]

CancelWrite(tk, tid) == UpdateTaskStatus(tk, tid, "failed", None, None, ErrCancelled)

(* history of a cancel write that reached the table *)
NoteCancel(tid) ==
    /\ cancelHit' = [cancelHit EXCEPT ![tid] = TRUE]
    /\ cancelInLoop' = [cancelInLoop EXCEPT ![tid] = @ \/ RunInLoop(tid)]

(* a repository call of cancel_task raises: nothing catches it *)
CancelDbRaise ==
    /\ cancel' = [IdleCancel EXCEPT !.pc = "raised", !.result = "raised"]
    /\ UNCHANGED <<tasks, cancelHist>>

(* cancel_task(user_id, task_id): load the task and check it *)
CancelSingle(u, tid) ==
    /\ CancelFree
    /\ \/ cancel' =
            [IdleCancel EXCEPT
               !.user_id = u, !.task_id = tid,
               !.pc = IF tid \in DOMAIN tasks /\ tasks[tid].user_id = u
                         /\ tasks[tid].status \in ActiveStatuses
                      THEN "single_update" ELSE "done",
               !.result = IF tid \notin DOMAIN tasks \/ tasks[tid].user_id /= u
                          THEN "not_found"
                          ELSE IF tasks[tid].status \notin ActiveStatuses
                               THEN "invalid_state" ELSE None]
       \/ cancel' = [IdleCancel EXCEPT !.pc = "raised", !.result = "raised"]
    /\ UNCHANGED <<tasks, users, flowVars, runHist, cancelHist>>
    /\ UNCHANGED <<retry, conv, files, video_path>>

CancelSingleUpdate ==
    /\ cancel.pc = "single_update"
    /\ \/ /\ tasks' = CancelWrite(tasks, cancel.task_id)
          /\ NoteCancel(cancel.task_id)
          /\ cancel' = [IdleCancel EXCEPT !.pc = "done", !.result = "cancelled",
                                          !.count = 1]
       \/ CancelDbRaise
    /\ UNCHANGED <<users, flowVars, runHist>>
    /\ UNCHANGED <<retry, conv, files, video_path>>

(* the task_id values that fail the test "if task_id:" *)
AbsentTaskIds == {NoTaskId, 0}

(* cancel_task(user_id, task_id) with task_id None or 0: load the user's   *)
(* active tasks                                                            *)
CancelBulk(u, tid) ==
    /\ CancelFree
    /\ \/ LET active == GetUserActiveTasks(tasks, u)
          IN cancel' =
               [IdleCancel EXCEPT
                  !.user_id = u,
                  !.task_id = tid,
                  !.remaining = active,
                  !.count = Cardinality(active),
                  !.pc = IF active = {} THEN "done" ELSE "bulk_loop",
                  !.result = IF active = {} THEN "none_active" ELSE None]
       \/ cancel' = [IdleCancel EXCEPT !.pc = "raised", !.result = "raised"]
    /\ UNCHANGED <<tasks, users, flowVars, runHist, cancelHist>>
    /\ UNCHANGED <<retry, conv, files, video_path>>

(* one iteration of the for loop over active_tasks *)
CancelBulkStep ==
    /\ cancel.pc = "bulk_loop"
    /\ \E tid \in cancel.remaining :
          \/ /\ tasks' = CancelWrite(tasks, tid)
             /\ NoteCancel(tid)
             /\ cancel' =
                  IF cancel.remaining = {tid}
                  THEN [IdleCancel EXCEPT !.pc = "done", !.result = "cancelled_all",
                                          !.count = cancel.count]
                  ELSE [cancel EXCEPT !.remaining = @ \ {tid}]
          \/ CancelDbRaise
    /\ UNCHANGED <<users, flowVars, runHist>>
    /\ UNCHANGED <<retry, conv, files, video_path>>

Next ==
    \/ \E f \in Flows, u \in UserIds : StartFlow(f, u)
    \/ \E f \in Flows : NotifyStarted(f)
    \/ \E f \in Flows : RunLoad(f)
    \/ \E f \in Flows : RunSubmit(f)
    \/ \E f \in Flows : RunSaveSubmitFailed(f)
    \/ \E f \in Flows : RunSaveProcessing(f)
    \/ \E f \in Flows : PollReturn(f)
    \/ \E f \in Flows : SleepDone(f)
    \/ \E f \in Flows : RunSaveFailed(f)
    \/ \E f \in Flows : RunSaveCompleted(f)
    \/ \E f \in Flows : RunIncRead(f)
    \/ \E f \in Flows : RunIncWrite(f)
    \/ \E f \in Flows : RunExcept(f)
    \/ \E u \in UserIds, tid \in TaskIds : CancelSingle(u, tid)
    \/ CancelSingleUpdate
    \/ \E u \in UserIds, tid \in AbsentTaskIds : CancelBulk(u, tid)
    \/ CancelBulkStep

Spec == Init /\ [][Next]_vars

(* ---- conversation.retry_with_backoff ---- *)
mainVars ==
    <<tasks, users, pc, flow_user, task_id, video_id, elapsed, status_data,
      video_url, inc_val, result, cancel, submits, incs, cancelHit, cancelInLoop>>

(* what one call of func ends with: its value, or the class of its error *)
FuncOutcomes == {"ok", "TimedOut", "NetworkError", "OtherError"}

(* every error counted as a network error *)
TransientAny(e) == e /= "ok"

(* except (TimedOut, NetworkError) *)
Transient(e) == e \in {"TimedOut", "NetworkError"}

(* the delay kept as it is after a sleep *)
NextDelayConstant(d) == d

(* delay *= 2 *)
NextDelay(d) == d * 2

(* the test before the sleep giving up one attempt early *)
MoreAttemptsOneLess(attempt, m) == attempt < m - 2

(* the test before the sleep passing on the last attempt too *)
MoreAttemptsOneMore(attempt, m) == attempt < m

(* if attempt < max_retries - 1 *)
MoreAttempts(attempt, m) == attempt < m - 1

(* retry_with_backoff(func, max_retries = m, initial_delay = d): the       *)
(* assignments before the loop and the first range test                    *)
RetryBegin(m, d) ==
    [IdleRetry EXCEPT !.max_retries = m, !.initial_delay = d, !.delay = d,
                      !.pc = IF m > 0 THEN "calling" ELSE "returned"]

RetryStart(m, d) ==
    /\ retry.pc = "idle"
    /\ retry' = RetryBegin(m, d)
    /\ UNCHANGED <<mainVars, conv, files, video_path>>

(* one pass of the loop body: await func() and the except clauses *)
RetryAttempt ==
    /\ retry.pc = "calling"
    /\ \E o \in FuncOutcomes :
          retry' =
            IF o = "ok"
            THEN [retry EXCEPT !.calls = @ + 1, !.pc = "returned",
                               !.outcome = "ok", !.value = retry.calls + 1]
            ELSE IF Transient(o)
            THEN IF MoreAttempts(retry.attempt, retry.max_retries)
                 THEN [retry EXCEPT !.calls = @ + 1, !.last_exception = o,
                                    !.pc = "sleeping"]
                 ELSE [retry EXCEPT !.calls = @ + 1, !.last_exception = o,
                                    !.pc = "raised", !.outcome = o]
            ELSE [retry EXCEPT !.calls = @ + 1, !.pc = "raised", !.outcome = o]
    /\ UNCHANGED <<mainVars, conv, files, video_path>>

(* asyncio.sleep(delay) ends: double the delay; the next value of the     *)
(* range, or past the loop "if last_exception: raise last_exception"       *)
RetrySleepDone ==
    /\ retry.pc = "sleeping"
    /\ retry' = [retry EXCEPT !.waited = @ + retry.delay,
                              !.slept = Append(@, retry.delay),
                              !.delay = NextDelay(@),
                              !.attempt = @ + 1,
                              !.pc = IF retry.attempt + 1 < retry.max_retries
                                     THEN "calling" ELSE "raised",
                              !.outcome = IF retry.attempt + 1 < retry.max_retries
                                          THEN @ ELSE retry.last_exception]
    /\ UNCHANGED <<mainVars, conv, files, video_path>>

RetryNext ==
    \/ \E m \in 0..MaxRetries, d \in 1..MaxInitialDelay : RetryStart(m, d)
    \/ RetryAttempt
    \/ RetrySleepDone

RetrySpec == Init /\ [][RetryNext]_vars

(* ---- the eligibility check against a stored table ---- *)
(* a row as the code leaves it in each status *)
StoredRow(u, st, day) ==
    [user_id |-> u, avatar_id |-> SomeAvatar, voice_id |-> SomeVoice,
     input_text |-> SomeText, status |-> st,
     heygen_video_id |-> IF st \in {"processing", "completed"} THEN "vid" ELSE None,
     video_url |-> IF st = "completed" THEN "url" ELSE None,
     error_message |-> IF st = "failed" THEN ErrWait ELSE None,
     completed_at |-> IF st = "completed" THEN "set" ELSE None,
     created_at |-> day]

StoredRows ==
    {StoredRow(u, st, day) :
        u \in UserIds, st \in ActiveStatuses \cup TerminalStatuses,
        day \in {"today", "earlier"}}

StoredTables == UNION {[1..n -> StoredRows] : n \in 0..MaxStoredTasks}

StoredUsers(tk) ==
    [u \in {tk[t].user_id : t \in DOMAIN tk} |->
        [NewUser EXCEPT !.total_videos_generated =
            Cardinality({t \in DOMAIN tk :
                            tk[t].user_id = u /\ tk[t].status = "completed"})]]

EligInit ==
    /\ tasks \in StoredTables
    /\ users = StoredUsers(tasks)
    /\ InitCallers

EligNext ==
    \/ \E f \in Flows, u \in UserIds : EligCheckActive(f, u)
    \/ \E f \in Flows : EligCheckDaily(f)

EligSpec == EligInit /\ [][EligNext]_vars

(* ---- the handlers: check, then create, then run; /cancel at any time ---- *)
(* no check-then-create sequence of user u is under way *)
NoOpenCheck(u) ==
    \A g \in Flows : flow_user[g] = u => pc[g] \notin {"elig_daily", "eligible"}

(* a check that starts only when the same user's earlier check-then-create *)
(* sequences have ended                                                    *)
SequentialCheck(f, u) ==
    /\ NoOpenCheck(u)
    /\ EligCheckActive(f, u)

QuotaNext ==
    \/ \E f \in Flows, u \in UserIds : SequentialCheck(f, u)
    \/ \E f \in Flows : EligCheckDaily(f)
    \/ \E f \in Flows : CheckedStart(f)
    \/ \E f \in Flows : NotifyStarted(f)
    \/ \E f \in Flows : RunLoad(f)
    \/ \E f \in Flows : RunSubmit(f)
    \/ \E f \in Flows : RunSaveSubmitFailed(f)
    \/ \E f \in Flows : RunSaveProcessing(f)
    \/ \E f \in Flows : PollReturn(f)
    \/ \E f \in Flows : SleepDone(f)
    \/ \E f \in Flows : RunSaveFailed(f)
    \/ \E f \in Flows : RunSaveCompleted(f)
    \/ \E f \in Flows : RunIncRead(f)
    \/ \E f \in Flows : RunIncWrite(f)
    \/ \E f \in Flows : RunExcept(f)
    \/ \E u \in UserIds : CancelBulk(u, NoTaskId)
    \/ CancelBulkStep

QuotaSpec == Init /\ [][QuotaNext]_vars

(* ---- conversation.generate_video after the service call ---- *)
(* "if success": the ready message, or the message with error_msg; an      *)
(* exception out of the service call, or out of sending either message,   *)
(* reaches the handler's except block                                      *)
HandlerOutcome(f) ==
    /\ pc[f] \in {"returned", "raised"}
    /\ \/ /\ pc[f] = "returned"
          /\ Goto(f, IF result[f] = "success" THEN "sent_ready" ELSE "sent_error")
       \/ Goto(f, "handler_error")
    /\ UNCHANGED <<tasks, users, flow_user, task_id, result, runLocals, cancel,
                   runHist, cancelHist>>
    /\ UNCHANGED <<retry, conv, files, video_path>>

(* except Exception: reply_text with the error text, which may raise too *)
HandlerExcept(f) ==
    /\ pc[f] = "handler_error"
    /\ \/ Goto(f, "sent_error")
       \/ Goto(f, "handler_raised")
    /\ UNCHANGED <<tasks, users, flow_user, task_id, result, runLocals, cancel,
                   runHist, cancelHist>>
    /\ UNCHANGED <<retry, conv, files, video_path>>

HandlerNext ==
    \/ \E f \in Flows, u \in UserIds : StartFlow(f, u)
    \/ \E f \in Flows : NotifyStarted(f)
    \/ \E f \in Flows : RunLoad(f)
    \/ \E f \in Flows : RunSubmit(f)
    \/ \E f \in Flows : RunSaveSubmitFailed(f)
    \/ \E f \in Flows : RunSaveProcessing(f)
    \/ \E f \in Flows : PollReturn(f)
    \/ \E f \in Flows : SleepDone(f)
    \/ \E f \in Flows : RunSaveFailed(f)
    \/ \E f \in Flows : RunSaveCompleted(f)
    \/ \E f \in Flows : RunIncRead(f)
    \/ \E f \in Flows : RunIncWrite(f)
    \/ \E f \in Flows : RunExcept(f)
    \/ \E f \in Flows : HandlerOutcome(f)
    \/ \E f \in Flows : HandlerExcept(f)

HandlerSpec == Init /\ [][HandlerNext]_vars

(* the handlers with every step that can be taken eventually taken: an     *)
(* awaited call returns, and the event loop resumes a coroutine whose      *)
(* await is done                                                           *)
HandlerLiveSpec == HandlerSpec /\ WF_vars(HandlerNext)

(* ---- reset_limits.py, the maintenance purge ---- *)
(* delete(VideoTask).where(VideoTask.status == 'failed'), committed *)
(* a purge that deletes the completed rows too *)
DeleteTerminal(tk) ==
    [t \in {x \in DOMAIN tk : tk[x].status \notin TerminalStatuses} |-> tk[t]]

DeleteFailed(tk) ==
    [t \in {x \in DOMAIN tk : tk[x].status /= "failed"} |-> tk[t]]

ResetLimits ==
    /\ \E t \in DOMAIN tasks : tasks[t].status = "failed"
    /\ tasks' = DeleteFailed(tasks)
    /\ UNCHANGED <<users, flowVars, cancel, runHist, cancelHist>>
    /\ UNCHANGED <<retry, conv, files, video_path>>

(* the purge run on a stored table, the bot not running *)
ResetNext == ResetLimits

ResetSpec == EligInit /\ [][ResetNext]_vars

(* the bot with /cancel, and the purge run beside it *)
PurgeNext ==
    \/ \E f \in Flows, u \in UserIds : StartFlow(f, u)
    \/ \E f \in Flows : NotifyStarted(f)
    \/ \E f \in Flows : RunLoad(f)
    \/ \E f \in Flows : RunSubmit(f)
    \/ \E f \in Flows : RunSaveSubmitFailed(f)
    \/ \E f \in Flows : RunSaveProcessing(f)
    \/ \E f \in Flows : PollReturn(f)
    \/ \E f \in Flows : SleepDone(f)
    \/ \E f \in Flows : RunSaveFailed(f)
    \/ \E f \in Flows : RunSaveCompleted(f)
    \/ \E f \in Flows : RunIncRead(f)
    \/ \E f \in Flows : RunIncWrite(f)
    \/ \E f \in Flows : RunExcept(f)
    \/ \E u \in UserIds : CancelBulk(u, NoTaskId)
    \/ CancelBulkStep
    \/ ResetLimits

PurgeSpec == Init /\ [][PurgeNext]_vars

(* ---- strings: what str.strip, re.match and str.replace do ---- *)
Strings(C, n) == UNION {[1..k -> C] : k \in 0..n}

Whitespace == {" ", "\n"}

RECURSIVE LStrip(_)
LStrip(s) == IF s /= << >> /\ Head(s) \in Whitespace THEN LStrip(Tail(s)) ELSE s

RECURSIVE RStrip(_)
RStrip(s) ==
    IF s /= << >> /\ s[Len(s)] \in Whitespace
    THEN RStrip(SubSeq(s, 1, Len(s) - 1)) ELSE s

(* str.strip() *)
Strip(s) == RStrip(LStrip(s))

(* what a pattern ending in $ is matched against: $ also matches before a *)
(* newline that ends the string                                           *)
DollarBody(s) ==
    IF s /= << >> /\ s[Len(s)] = "\n" THEN SubSeq(s, 1, Len(s) - 1) ELSE s

AllIn(s, C) == \A i \in 1..Len(s) : s[i] \in C

(* the characters of the model: "a" and "7" stand for a-f and 0-9, "g" for *)
(* g-z, "A" for A-Z, "-" for - and _, ":" for everything else printable    *)
IdChars == {"a", "7", "g", "A", "-"}
HexChars == {"a", "7"}

(* re.match(r'^[a-zA-Z0-9_-]+$', s) *)
MatchesIdPattern(s) == DollarBody(s) /= << >> /\ AllIn(DollarBody(s), IdChars)

(* the talking-photo pattern without the length *)
MatchesTalkingPhotoAnyLength(s) ==
    DollarBody(s) /= << >> /\ AllIn(DollarBody(s), HexChars)

(* re.match(r'^[0-9a-f]{32}$', s) *)
MatchesTalkingPhoto(s) ==
    Len(DollarBody(s)) = TALKING_PHOTO_ID_LEN /\ AllIn(DollarBody(s), HexChars)

(* "talking_photo:", a lower-case word and the colon *)
TalkingPhotoPrefix == <<"g", ":">>

StartsWith(s, p) == Len(s) >= Len(p) /\ SubSeq(s, 1, Len(p)) = p

(* s.replace(p, ""): every occurrence, left to right *)
RECURSIVE RemoveAll(_, _)
RemoveAll(s, p) ==
    IF s = << >> THEN s
    ELSE IF StartsWith(s, p) THEN RemoveAll(SubSeq(s, Len(p) + 1, Len(s)), p)
    ELSE <<Head(s)>> \o RemoveAll(Tail(s), p)

(* ---- bot/utils/validators.py ---- *)
ValidateAvatarId(s) ==
    IF s = << >> \/ Strip(s) = << >> THEN "empty"
    ELSE IF ~MatchesIdPattern(s) THEN "bad_chars"
    ELSE IF Len(s) > MAX_ID_LENGTH THEN "too_long"
    ELSE "ok"

ValidateVoiceId(s) ==
    IF s = << >> \/ Strip(s) = << >> THEN "empty"
    ELSE IF ~MatchesIdPattern(s) THEN "bad_chars"
    ELSE IF Len(s) > MAX_ID_LENGTH THEN "too_long"
    ELSE "ok"

(* a text check without the length test *)
ValidateTextAnyLength(s) ==
    IF s = << >> \/ Strip(s) = << >> THEN "empty" ELSE "ok"

ValidateText(s) ==
    IF s = << >> \/ Strip(s) = << >> THEN "empty"
    ELSE IF Len(s) > MAX_TEXT_LENGTH THEN "too_long"
    ELSE "ok"

(* parse_single_message on the parts of message.split('|'): None unless     *)
(* there are three parts, none of them empty once stripped                 *)
ParseSingleMessage(parts) ==
    IF Len(parts) /= 3 THEN << >>
    ELSE IF \E i \in 1..3 : Strip(parts[i]) = << >> THEN << >>
    ELSE <<Strip(parts[1]), Strip(parts[2]), Strip(parts[3])>>
(* ---- the conversation handlers of bot/handlers/conversation.py ---- *)
(* the one chat of the model, and the messages it may send *)
ConvUser == 1

AvatarChars == {"a", "7", "g", "A", "-", ":", " ", "\n"}
AvatarInputs == Strings(AvatarChars, MaxInputLen)
VoiceInputs == Strings({"a", ":", " "}, MaxInputLen)
TextInputs == Strings({"x", " "}, MaxInputLen)

(* the parts of a one-line request, fewer shapes of each *)
SingleAvatarInputs == Strings({"a", "g", ":"}, MaxInputLen)
SingleVoiceInputs == Strings({"a", ":"}, MaxInputLen)

(* re.match(r'^[0-9a-f]{32}$', ...) and the f"talking_photo:{...}" *)
TagAvatar(s) == IF MatchesTalkingPhoto(s) THEN TalkingPhotoPrefix \o s ELSE s

(* db.create_video_task(user_id, avatar_id, voice_id, input_text) *)
CreateVideoTaskOf(tk, u, a, v, t) ==
    LET id == NextTaskId(tk)
    IN [x \in DOMAIN tk \cup {id} |-> IF x = id THEN NewTaskOf(u, a, v, t) ELSE tk[x]]

(* VideoService.generate_video: the arguments of heygen_api.generate_video *)
SubmitRequest(row) ==
    IF StartsWith(row.avatar_id, TalkingPhotoPrefix)
    THEN [kind |-> "talking_photo",
          id |-> RemoveAll(row.avatar_id, TalkingPhotoPrefix),
          voice_id |-> row.voice_id, input_text |-> row.input_text]
    ELSE [kind |-> "avatar", id |-> row.avatar_id,
          voice_id |-> row.voice_id, input_text |-> row.input_text]

(* can_user_generate_video with no other handler between its two reads *)
CanUserGenerateVideo(tk, u) ==
    /\ ~OverConcurrentLimit(GetUserActiveTasksCount(tk, u))
    /\ ~OverDailyLimit(GetUserDailyRequests(tk, u))

convOthers == <<flowVars, cancel, runHist, cancelHist, retry, files, video_path>>

Reprompt == conv' = [conv EXCEPT !.reply = "reprompt"]

(* /generate *)
GenerateCommand ==
    /\ conv.state = "END"
    /\ conv' = IF CanUserGenerateVideo(tasks, ConvUser)
               THEN [conv EXCEPT !.state = "AVATAR_ID", !.reply = "ask_avatar"]
               ELSE [conv EXCEPT !.reply = "refused"]
    /\ UNCHANGED <<tasks, users, convOthers>>

ReceiveAvatarId ==
    /\ conv.state = "AVATAR_ID"
    /\ \E raw \in AvatarInputs :
       LET message_text == Strip(raw)
       IN IF ValidateAvatarId(message_text) /= "ok"
          THEN Reprompt
          ELSE conv' = [conv EXCEPT !.token = message_text,
                                    !.avatar_id = TagAvatar(message_text),
                                    !.state = "VOICE_ID",
                                    !.reply = "ask_voice"]
    /\ UNCHANGED <<tasks, users, convOthers>>

ReceiveVoiceId ==
    /\ conv.state = "VOICE_ID"
    /\ \E raw \in VoiceInputs :
       LET message_text == Strip(raw)
       IN IF ValidateVoiceId(message_text) /= "ok"
          THEN Reprompt
          ELSE conv' = [conv EXCEPT !.voice_id = message_text,
                                    !.state = "TEXT_INPUT",
                                    !.reply = "ask_text"]
    /\ UNCHANGED <<tasks, users, convOthers>>

(* conversation.generate_video up to the start message: the task is        *)
(* created, or the creation raises, the except block answers and the       *)
(* finally block clears user_data                                          *)
GenerateVideoCreate(token, a, v, t) ==
    \/ /\ users' = GetOrCreateUser(users, ConvUser)
       /\ tasks' = CreateVideoTaskOf(tasks, ConvUser, a, v, t)
       /\ conv' = [conv EXCEPT !.token = token, !.avatar_id = a, !.voice_id = v,
                               !.state = "END", !.reply = "started",
                               !.task_id = NextTaskId(tasks)]
    \/ /\ UNCHANGED <<tasks, users>>
       /\ conv' = [IdleConv EXCEPT !.reply = "error"]

ReceiveText ==
    /\ conv.state = "TEXT_INPUT"
    /\ \E raw \in TextInputs :
       LET message_text == Strip(raw)
       IN IF ValidateText(message_text) /= "ok"
          THEN Reprompt /\ UNCHANGED <<tasks, users>>
          ELSE GenerateVideoCreate(conv.token, conv.avatar_id, conv.voice_id,
                                   message_text)
    /\ UNCHANGED convOthers

(* process_single_message(parsed_data) *)
ProcessSingleMessage(p) ==
    IF \/ ValidateAvatarId(p[1]) /= "ok"
       \/ ValidateVoiceId(p[2]) /= "ok"
       \/ ValidateText(p[3]) /= "ok"
    THEN Reprompt /\ UNCHANGED <<tasks, users>>
    ELSE GenerateVideoCreate(p[1], TagAvatar(p[1]), p[2], p[3])

(* among the messages of the model some parse as a request, some do not *)
SomeMessageIsNoRequest ==
    \/ ParseSingleMessage(<<SomeAvatar, SomeVoice>>) = << >>
    \/ \E a \in SingleAvatarInputs, v \in SingleVoiceInputs, t \in TextInputs :
          ParseSingleMessage(<<a, v, t>>) = << >>

SomeMessageIsRequest ==
    \E a \in SingleAvatarInputs, v \in SingleVoiceInputs, t \in TextInputs :
        ParseSingleMessage(<<a, v, t>>) /= << >>

(* a text message outside the conversation: not a request of three parts,  *)
(* a request refused by the limits, or a request processed                 *)
HandleRegularMessage ==
    /\ conv.state = "END"
    /\ \/ /\ SomeMessageIsNoRequest
          /\ conv' = [conv EXCEPT !.reply = "unknown"]
          /\ UNCHANGED <<tasks, users>>
       \/ /\ ~CanUserGenerateVideo(tasks, ConvUser)
          /\ SomeMessageIsRequest
          /\ conv' = [conv EXCEPT !.reply = "refused"]
          /\ UNCHANGED <<tasks, users>>
       \/ /\ CanUserGenerateVideo(tasks, ConvUser)
          /\ \E a \in SingleAvatarInputs, v \in SingleVoiceInputs, t \in TextInputs :
                /\ ParseSingleMessage(<<a, v, t>>) /= << >>
                /\ ProcessSingleMessage(ParseSingleMessage(<<a, v, t>>))
    /\ UNCHANGED convOthers

(* VideoService.generate_video(task_id) of the started request, up to the  *)
(* call of heygen_api.generate_video                                       *)
ConvRunSubmit ==
    /\ conv.task_id /= 0
    /\ conv.submitted.kind = None
    /\ conv' = IF conv.task_id \in DOMAIN tasks
               THEN [conv EXCEPT !.submitted = SubmitRequest(tasks[conv.task_id])]
               ELSE [conv EXCEPT !.submitted.kind = "not_found"]
    /\ UNCHANGED <<tasks, users, convOthers>>

ConvNext ==
    \/ GenerateCommand
    \/ ReceiveAvatarId
    \/ ReceiveVoiceId
    \/ ReceiveText
    \/ HandleRegularMessage
    \/ ConvRunSubmit

ConvSpec == Init /\ [][ConvNext]_vars

(* ---- Database.get_or_create_user, one await at a time ---- *)
(* users tables the bot can have left behind *)
StoredUserRows ==
    {[total_videos_generated |-> n, last_request_date |-> d] :
        n \in 0..1, d \in {None, "set"}}

StoredUserTables == UNION {[S -> StoredUserRows] : S \in SUBSET UserIds}

UserInit ==
    /\ tasks = << >>
    /\ users \in StoredUserTables
    /\ InitCallers

(* session.execute(select(User)...): the row is there and is returned, or *)
(* it is not and the caller goes on to insert it                          *)
GetOrCreateUserSelect(f, u) ==
    /\ pc[f] \in {"idle", "user_returned", "user_raised"}
    /\ flow_user' = [flow_user EXCEPT ![f] = u]
    /\ IF u \in DOMAIN users
       THEN /\ Goto(f, "user_returned")
            /\ result' = [result EXCEPT ![f] = "user"]
       ELSE /\ Goto(f, "user_insert")
            /\ result' = [result EXCEPT ![f] = None]
    /\ UNCHANGED <<tasks, users, task_id, runLocals, cancel, runHist, cancelHist>>
    /\ UNCHANGED <<retry, conv, files, video_path>>

(* session.add(user), commit: the insert, or IntegrityError when a row    *)
(* with this primary key has been committed since the select               *)
GetOrCreateUserCommit(f) ==
    /\ pc[f] = "user_insert"
    /\ IF flow_user[f] \in DOMAIN users
       THEN /\ Goto(f, "user_raised")
            /\ UNCHANGED <<users, result>>
       ELSE /\ users' = GetOrCreateUser(users, flow_user[f])
            /\ Goto(f, "user_returned")
            /\ result' = [result EXCEPT ![f] = "user"]
    /\ UNCHANGED <<tasks, flow_user, task_id, runLocals, cancel, runHist, cancelHist>>
    /\ UNCHANGED <<retry, conv, files, video_path>>

UserNext ==
    \/ \E f \in Flows, u \in UserIds : GetOrCreateUserSelect(f, u)
    \/ \E f \in Flows : GetOrCreateUserCommit(f)

UserSpec == UserInit /\ [][UserNext]_vars

(* ---- VideoService.get_task_status_message and /status ---- *)
Ellipsis == <<".", ".", ".">>

(* the preview without the cut *)
TextPreviewWhole(t) == t

(* task.input_text[:50] + "..." if len(task.input_text) > 50 else task.input_text *)
TextPreview(t) ==
    IF Len(t) > PREVIEW_LENGTH THEN SubSeq(t, 1, PREVIEW_LENGTH) \o Ellipsis ELSE t

StatusText(st) == IF st = "pending" THEN "queued" ELSE "generating"

(* one numbered line of the message per task of active_tasks *)
StatusEntries(tk, u) ==
    {[task_id |-> t, status_text |-> StatusText(tk[t].status),
      text_preview |-> TextPreview(tk[t].input_text)] : t \in GetUserActiveTasks(tk, u)}

(* stored tables with texts around the preview length *)
SummaryTexts == {<<"x">>, <<"x", "y">>, <<"x", "y", "z">>, <<"x", "y", ".", ".", ".">>}

SummaryRows ==
    {[StoredRow(u, st, "today") EXCEPT !.input_text = t] :
        u \in UserIds, st \in ActiveStatuses \cup TerminalStatuses, t \in SummaryTexts}

SummaryTables == UNION {[1..n -> SummaryRows] : n \in 0..MaxStoredTasks}

SummaryInit ==
    /\ tasks \in SummaryTables
    /\ users = StoredUsers(tasks)
    /\ InitCallers

(* status_command of user u: the message is built from one repository read *)
StatusCommand(u) ==
    /\ conv' = [conv EXCEPT !.reply = "status",
                            !.summary = [user_id |-> u,
                                         entries |-> StatusEntries(tasks, u)]]
    /\ UNCHANGED <<tasks, users, convOthers>>

SummaryNext == \E u \in UserIds : StatusCommand(u)

SummarySpec == SummaryInit /\ [][SummaryNext]_vars

(* ---- conversation.generate_video, the delivery of a successful run ---- *)
(* retry_with_backoff(func, max_retries=4, initial_delay=2.0) *)
DEFAULT_MAX_RETRIES == 4

DEFAULT_INITIAL_DELAY == 2

deliverOthers ==
    <<tasks, users, flow_user, task_id, result, runLocals, cancel, runHist,
      cancelHist, conv>>

(* os.path.join(TEMP_VIDEO_DIR, f"video_{task_id}_{task.heygen_video_id}.mp4") *)
FilePath(tid, row) == <<tid, row.heygen_video_id>>

(* if not task or task.status != 'completed' or not task.video_url *)
NothingToFetch(tk, tid) ==
    \/ tid \notin DOMAIN tk
    \/ tk[tid].status /= "completed"
    \/ ~Truthy(tk[tid].video_url)

(* what HeyGenAPI.download_video can end with: every chunk written; an     *)
(* answer other than 200 or an error before the file is opened; an error   *)
(* of a chunk read after open(file_path, 'wb') created the file            *)
DownloadOutcomes == {"written", "no_file", "part_way"}

(* download_task_video up to its await of download_video: the repository   *)
(* read and the test; a raising read reaches the handler's except block    *)
DownloadTaskVideo(f) ==
    /\ pc[f] = "sent_ready"
    /\ \/ IF NothingToFetch(tasks, task_id[f])
          THEN Goto(f, "no_video") /\ video_path' = video_path
          ELSE /\ Goto(f, "downloading")
               /\ video_path' = [video_path EXCEPT
                                   ![f] = FilePath(task_id[f], tasks[task_id[f]])]
       \/ Goto(f, "handler_error") /\ video_path' = video_path
    /\ UNCHANGED <<deliverOthers, retry, files>>

(* the files on disk after download_video ended with outcome o *)
AfterDownload(fs, path, o) ==
    IF o \in {"written", "part_way"} THEN fs \cup {path} ELSE fs

(* download_video returns True or False; download_task_video returns the   *)
(* path or None; then "if video_path and os.path.exists(video_path)"       *)
DownloadVideo(f) ==
    /\ pc[f] = "downloading"
    /\ \E o \in DownloadOutcomes :
          /\ files' = AfterDownload(files, video_path[f], o)
          /\ IF o = "written"
             THEN Goto(f, "notify_sending") /\ video_path' = video_path
             ELSE /\ Goto(f, "no_video")
                  /\ video_path' = [video_path EXCEPT ![f] = NoPath]
    /\ UNCHANGED <<deliverOthers, retry>>

(* the else branch: the could-not-download message, which may raise *)
NotifyNoVideo(f) ==
    /\ pc[f] = "no_video"
    /\ \/ Goto(f, "delivery_over")
       \/ Goto(f, "handler_error")
    /\ UNCHANGED <<deliverOthers, retry, files, video_path>>

(* the sending message, outside the try block: an exception goes to the    *)
(* handler's except block past the finally clause that removes the file    *)
NotifySending(f) ==
    /\ pc[f] = "notify_sending"
    /\ \/ Goto(f, "send")
       \/ Goto(f, "handler_error")
    /\ UNCHANGED <<deliverOthers, retry, files, video_path>>

(* await retry_with_backoff(send_video_with_retry) is entered *)
SendVideoStart(f) ==
    /\ pc[f] = "send"
    /\ retry.pc = "idle"
    /\ retry' = RetryBegin(DEFAULT_MAX_RETRIES, DEFAULT_INITIAL_DELAY)
    /\ Goto(f, "sending")
    /\ UNCHANGED <<deliverOthers, files, video_path>>

(* retry_with_backoff returned or raised: status_message.delete(), or the  *)
(* except clause                                                           *)
SendVideoDone(f) ==
    /\ pc[f] = "sending"
    /\ retry.pc \in {"returned", "raised"}
    /\ retry' = IdleRetry
    /\ Goto(f, IF retry.pc = "returned" THEN "delete_status" ELSE "send_failed")
    /\ UNCHANGED <<deliverOthers, files, video_path>>

(* status_message.delete(); its exception is caught by the same except *)
DeleteStatusMessage(f) ==
    /\ pc[f] = "delete_status"
    /\ \/ Goto(f, "cleanup")
       \/ Goto(f, "send_failed")
    /\ UNCHANGED <<deliverOthers, retry, files, video_path>>

(* except Exception: the could-not-send message; when it raises, the       *)
(* finally clause runs and the exception goes on to the handler's except   *)
NotifySendFailed(f) ==
    /\ pc[f] = "send_failed"
    /\ \/ Goto(f, "cleanup")
       \/ Goto(f, "cleanup_raise")
    /\ UNCHANGED <<deliverOthers, retry, files, video_path>>

(* finally: os.remove(video_path) *)
RemoveVideoFile(f) ==
    /\ pc[f] \in {"cleanup", "cleanup_raise"}
    /\ files' = files \ {video_path[f]}
    /\ Goto(f, IF pc[f] = "cleanup" THEN "delivery_over" ELSE "handler_error")
    /\ UNCHANGED <<deliverOthers, retry, video_path>>

(* one chat's handler from the creation of its task to the end of the      *)
(* delivery, with /cancel of every form beside it                          *)
DeliverNext ==
    \/ StartFlow(1, 1)
    \/ \E f \in Flows : NotifyStarted(f)
    \/ \E f \in Flows : RunLoad(f)
    \/ \E f \in Flows : RunSubmit(f)
    \/ \E f \in Flows : RunSaveSubmitFailed(f)
    \/ \E f \in Flows : RunSaveProcessing(f)
    \/ \E f \in Flows : PollReturn(f)
    \/ \E f \in Flows : SleepDone(f)
    \/ \E f \in Flows : RunSaveFailed(f)
    \/ \E f \in Flows : RunSaveCompleted(f)
    \/ \E f \in Flows : RunIncRead(f)
    \/ \E f \in Flows : RunIncWrite(f)
    \/ \E f \in Flows : RunExcept(f)
    \/ \E u \in UserIds, tid \in TaskIds : CancelSingle(u, tid)
    \/ CancelSingleUpdate
    \/ \E u \in UserIds, tid \in AbsentTaskIds : CancelBulk(u, tid)
    \/ CancelBulkStep
    \/ \E f \in Flows : HandlerOutcome(f)
    \/ \E f \in Flows : HandlerExcept(f)
    \/ \E f \in Flows : DownloadTaskVideo(f)
    \/ \E f \in Flows : DownloadVideo(f)
    \/ \E f \in Flows : NotifyNoVideo(f)
    \/ \E f \in Flows : NotifySending(f)
    \/ \E f \in Flows : SendVideoStart(f)
    \/ RetryAttempt
    \/ RetrySleepDone
    \/ \E f \in Flows : SendVideoDone(f)
    \/ \E f \in Flows : DeleteStatusMessage(f)
    \/ \E f \in Flows : NotifySendFailed(f)
    \/ \E f \in Flows : RemoveVideoFile(f)

DeliverSpec == Init /\ [][DeliverNext]_vars

(***************************************************************************)
(* Properties                                                              *)
(***************************************************************************)
HasTask(f) == task_id[f] \in DOMAIN tasks

TaskOf(f) == tasks[task_id[f]]

InWait(f) == pc[f] \in {"polling", "sleeping"}

(* C1: once a task's recorded status is completed or failed, no step of a  *)
(* run, of a single or bulk cancel, or a failing repository call changes   *)
(* that status.                                                            *)
C1_TerminalStatusNeverChanges ==
    [][\A t \in DOMAIN tasks :
          tasks[t].status \in TerminalStatuses => tasks'[t].status = tasks[t].status]_vars

(* C2: a run whose task was cancelled while the run was in the polling     *)
(* loop issues no new poll, does not return success, does not increment    *)
(* the counter, and leaves status failed with the cancel detail.           *)
C2_RunObservesCancel ==
    [][\A f \in Flows :
          (HasTask(f) /\ cancelInLoop'[task_id[f]]) =>
             /\ result'[f] /= "success"
             /\ incs'[f] = 0
             /\ tasks'[task_id[f]].status = "failed"
             /\ tasks'[task_id[f]].error_message = ErrCancelled
             /\ cancelInLoop[task_id[f]] => ~(pc[f] /= "polling" /\ pc'[f] = "polling")]_vars

(* C3: completed_at is set exactly when the status is completed.           *)
C3_CompletedAtIffCompleted ==
    \A t \in DOMAIN tasks :
        (tasks[t].completed_at /= None) <=> (tasks[t].status = "completed")

(* C4: error_message is set exactly when the status is failed.             *)
C4_ErrorIffFailed ==
    \A t \in DOMAIN tasks :
        Truthy(tasks[t].error_message) <=> (tasks[t].status = "failed")

(* C5: a task whose recorded status is processing has a render id; the     *)
(* status and the id are written by one repository update.                 *)
C5_ProcessingHasRenderId ==
    \A t \in DOMAIN tasks :
        tasks[t].status = "processing" => Truthy(tasks[t].heygen_video_id)

C5_Witness ==
    \E f \in Flows :
        /\ HasTask(f) /\ InWait(f)
        /\ TaskOf(f).status = "processing"
        /\ TaskOf(f).heygen_video_id = "vid"

(* C6 as stated: the loop has ended by timeout + poll interval of loop     *)
(* time.                                                                   *)
C6_EndsWithinTimeoutPlusInterval ==
    \A f \in Flows : elapsed[f] <= VIDEO_GENERATION_TIMEOUT + VIDEO_CHECK_INTERVAL

(* C6 amended: the loop has ended by timeout + poll interval + the         *)
(* per-call limit of one status request: a poll is issued only at loop     *)
(* time <= timeout, a sleep starts at <= timeout + call limit, and the     *)
(* loop is left at <= timeout + call limit + interval, whatever the        *)
(* provider answers.                                                       *)
C6_EndsWithinTimeoutIntervalAndCall ==
    \A f \in Flows :
        /\ pc[f] = "polling" => elapsed[f] <= VIDEO_GENERATION_TIMEOUT
        /\ pc[f] = "sleeping" =>
              elapsed[f] <= VIDEO_GENERATION_TIMEOUT + STATUS_CALL_TIMEOUT
        /\ elapsed[f] <= VIDEO_GENERATION_TIMEOUT + STATUS_CALL_TIMEOUT
                           + VIDEO_CHECK_INTERVAL

C6_Witness ==
    \E f \in Flows :
        /\ pc[f] = "save_failed"
        /\ ~status_data[f].ok
        /\ elapsed[f] = VIDEO_GENERATION_TIMEOUT + STATUS_CALL_TIMEOUT
                          + VIDEO_CHECK_INTERVAL

(* C7: generate_video never raises to its caller, and when it has returned *)
(* a failure for an existing task the task is failed with an error detail. *)
C7_RunNeverRaises ==
    \A f \in Flows :
        /\ pc[f] /= "raised"
        /\ (pc[f] = "returned" /\ result[f] /= "success" /\ HasTask(f)) =>
              (TaskOf(f).status = "failed" /\ Truthy(TaskOf(f).error_message))

(* C8: when submission returned a render id, the polls then reported the   *)
(* video completed with an asset locator, no cancel wrote to the task and  *)
(* every repository call of the run answered, the run returns success and  *)
(* nothing else; the task is then completed with that locator and the      *)
(* render id stored, and the run has added exactly 1 to the owner's        *)
(* counter (the counter is 1 when no other run of that user added to it).  *)
C8_HappyPathCompletes ==
    /\ [](\A f \in Flows :
            /\ pc[f] = "save_completed" =>
                  (video_url[f] = "url" /\ status_data[f].status = "completed")
            /\ (result[f] = "success" /\ ~cancelHit[task_id[f]]) =>
                  /\ pc[f] = "returned"
                  /\ TaskOf(f).status = "completed"
                  /\ TaskOf(f).video_url = "url"
                  /\ TaskOf(f).heygen_video_id = "vid"
                  /\ TaskOf(f).completed_at /= None
                  /\ incs[f] = 1
                  /\ users[flow_user[f]].total_videos_generated >= 1
                  /\ (\A g \in Flows \ {f} : flow_user[g] = flow_user[f] => incs[g] = 0)
                        => users[flow_user[f]].total_videos_generated = 1)
    /\ [][\A f \in Flows :
            /\ (pc[f] = "save_completed" /\ pc'[f] /= pc[f]) =>
                  \/ pc'[f] = "inc_read" /\ tasks'[task_id[f]].status = "completed"
                  \/ pc'[f] = "except"
            /\ (pc[f] = "inc_read" /\ pc'[f] /= pc[f]) =>
                  pc'[f] \in {"inc_write", "except"}
            /\ (pc[f] = "inc_write" /\ pc'[f] /= pc[f]) =>
                  \/ /\ pc'[f] = "returned" /\ result'[f] = "success"
                     /\ users'[flow_user[f]].total_videos_generated = inc_val[f] + 1
                  \/ pc'[f] = "except"]_vars

C8_Witness ==
    \E f \in Flows :
        /\ pc[f] = "returned" /\ result[f] = "success"
        /\ ~cancelHit[task_id[f]]
        /\ TaskOf(f).status = "completed"
        /\ users[flow_user[f]].total_videos_generated = 1

(* C9: when submit returns no render id the run does not submit again,     *)
(* never polls and never writes processing; its next repository call       *)
(* writes failed with the submission detail and the run returns the        *)
(* submission failure (if that call raises, control is in the except       *)
(* block); the run adds nothing to the user's counter.                     *)
C9_SubmitFailureFailsTask ==
    /\ [](\A f \in Flows :
            /\ pc[f] \in {"save_processing", "polling", "sleeping", "save_completed"}
                  => Truthy(video_id[f])
            /\ (pc[f] = "save_submit_failed" \/ result[f] = "submit_failed") =>
                  /\ submits[f] = 1
                  /\ incs[f] = 0
                  /\ TaskOf(f).heygen_video_id = None
                  /\ TaskOf(f).status /= "processing"
            /\ result[f] = "submit_failed" =>
                  (TaskOf(f).status = "failed" /\ Truthy(TaskOf(f).error_message)))
    /\ [][\A f \in Flows :
            (pc[f] = "save_submit_failed" /\ pc'[f] /= pc[f]) =>
               \/ /\ pc'[f] = "returned"
                  /\ result'[f] = "submit_failed"
                  /\ tasks'[task_id[f]].status = "failed"
                  /\ tasks'[task_id[f]].error_message = ErrSubmit
                  /\ users' = users
               \/ pc'[f] = "except" /\ tasks' = tasks]_vars

C9_Witness ==
    \E f \in Flows :
        /\ pc[f] = "returned" /\ result[f] = "submit_failed"
        /\ TaskOf(f).status = "failed"
        /\ TaskOf(f).error_message = ErrSubmit

(* C10: a poll that returns none never ends the loop: the loop sleeps,     *)
(* the sleep adds exactly the poll interval to the loop time, and after    *)
(* the sleep the loop polls again unless the loop time exceeds the         *)
(* timeout; the loop time is never reset inside the loop.                  *)
C10_TransientPollErrorRetries ==
    [][\A f \in Flows :
          /\ (pc[f] = "polling" /\ pc'[f] /= pc[f] /\ ~status_data'[f].ok) =>
                (pc'[f] = "sleeping" /\ elapsed'[f] >= elapsed[f])
          /\ (pc[f] = "sleeping" /\ pc'[f] /= pc[f]) =>
                /\ elapsed'[f] = elapsed[f] + VIDEO_CHECK_INTERVAL
                /\ IF elapsed'[f] > VIDEO_GENERATION_TIMEOUT
                   THEN pc'[f] = "save_failed"
                   ELSE pc'[f] = "polling"]_vars

C10_Witness ==
    \E f \in Flows :
        /\ pc[f] = "sleeping"
        /\ ~status_data[f].ok
        /\ elapsed[f] >= VIDEO_CHECK_INTERVAL

(* C11: a failure recorded by generate_video names its cause: when the     *)
(* last poll answer was the provider's failed status the stored detail is  *)
(* the provider's error text, and the detail stored for a provider         *)
(* failure differs from the one stored when the loop timed out.            *)
C11_FailureCauseRecorded ==
    [][\A f \in Flows :
          (pc[f] = "save_failed" /\ pc'[f] = "returned") =>
             LET detail == tasks'[task_id[f]].error_message
                 providerFailed == status_data[f].ok /\ status_data[f].status = "failed"
             IN /\ providerFailed => detail = status_data[f].error
                /\ (~providerFailed /\ TimedOut(elapsed[f])) => detail /= "render_error"]_vars

Pow2(n) == 2 ^ n

(* C19: when a call of the operation ends with an error outside the       *)
(* network class, the retrier raises that error at once: the call was the  *)
(* last one, no sleep follows it (a sleep follows only a TimedOut or a     *)
(* NetworkError), and on a first attempt the operation has been invoked    *)
(* exactly once with no delay waited at all.                               *)
C19_NonTransientPropagatesAtOnce ==
    /\ [](retry.outcome = "OtherError" =>
            /\ retry.pc = "raised"
            /\ retry.calls = retry.attempt + 1
            /\ retry.waited = retry.initial_delay * (Pow2(retry.attempt) - 1)
            /\ retry.attempt = 0 => (retry.calls = 1 /\ retry.waited = 0))
    /\ [][/\ (retry.pc = "raised" /\ retry.outcome = "OtherError") => retry' = retry
          /\ (retry.pc = "calling" /\ retry'.pc = "sleeping") =>
                retry'.last_exception \in {"TimedOut", "NetworkError"}]_vars

C19_Witness ==
    /\ retry.pc = "raised" /\ retry.outcome = "OtherError"
    /\ retry.attempt = 2 /\ retry.calls = 3

(* C20: when the operation fails with network errors k times and then      *)
(* succeeds, k < max_retries, the retrier returns the value of call k + 1  *)
(* and has slept initial_delay * (2^k - 1) in total: 14 for k = 3,         *)
(* max_retries = 4, initial_delay = 2.                                     *)
C20_BackoffDelayTotal ==
    (retry.pc = "returned" /\ retry.outcome = "ok") =>
        /\ retry.attempt < retry.max_retries
        /\ retry.calls = retry.attempt + 1
        /\ retry.value = retry.attempt + 1
        /\ retry.waited = retry.initial_delay * (Pow2(retry.attempt) - 1)
        /\ (retry.attempt = 3 /\ retry.initial_delay = 2) => retry.waited = 14

C20_Witness ==
    /\ retry.pc = "returned" /\ retry.outcome = "ok"
    /\ retry.max_retries = 4 /\ retry.initial_delay = 2
    /\ retry.attempt = 3 /\ retry.value = 4 /\ retry.waited = 14

ActiveCount(u) ==
    Cardinality({t \in DOMAIN tasks :
                    tasks[t].user_id = u /\ tasks[t].status \in {"pending", "processing"}})

DailyCount(u) ==
    Cardinality({t \in DOMAIN tasks :
                    tasks[t].user_id = u /\ tasks[t].created_at = "today"})

CheckReturned(f) == pc[f] \in {"eligible", "ineligible"}

(* C12: a check of a user whose number of pending or processing tasks is   *)
(* at least the concurrent-task limit returns ineligible with the          *)
(* concurrency reason (or its repository read raises); it never goes on to *)
(* the daily test or to eligible.                                          *)
C12_ConcurrentLimitIneligible ==
    /\ [](\A f \in Flows :
            (CheckReturned(f) /\ ActiveCount(flow_user[f]) >= MAX_CONCURRENT_TASKS) =>
                (pc[f] = "ineligible" /\ result[f] = ErrConcurrent))
    /\ [][\A f \in Flows :
            (pc[f] = "idle" /\ pc'[f] /= "idle"
               /\ ActiveCount(flow_user'[f]) >= MAX_CONCURRENT_TASKS) =>
                \/ pc'[f] = "ineligible" /\ result'[f] = ErrConcurrent
                \/ pc'[f] = "elig_raised"]_vars

C12_Witness ==
    \E f \in Flows :
        /\ pc[f] = "ineligible" /\ result[f] = ErrConcurrent
        /\ ActiveCount(flow_user[f]) = MAX_CONCURRENT_TASKS

(* C13 as stated: a check of a user whose number of tasks created today is *)
(* at least the daily limit returns ineligible with the daily-quota        *)
(* reason, whatever the user's active count.                               *)
C13_DailyLimitDailyReason ==
    \A f \in Flows :
        (CheckReturned(f) /\ DailyCount(flow_user[f]) >= MAX_DAILY_REQUESTS) =>
            (pc[f] = "ineligible" /\ result[f] = ErrDaily)

(* C13 amended: such a check returns ineligible whatever the active count; *)
(* the reason is the daily-quota reason when the active count is below the *)
(* concurrent-task limit and the concurrency reason otherwise. Tasks of    *)
(* every status count.                                                     *)
C13_DailyLimitIneligible ==
    \A f \in Flows :
        (CheckReturned(f) /\ DailyCount(flow_user[f]) >= MAX_DAILY_REQUESTS) =>
            /\ pc[f] = "ineligible"
            /\ result[f] = IF ActiveCount(flow_user[f]) >= MAX_CONCURRENT_TASKS
                           THEN ErrConcurrent ELSE ErrDaily

C13_Witness ==
    \E f \in Flows :
        /\ pc[f] = "ineligible" /\ result[f] = ErrDaily
        /\ ActiveCount(flow_user[f]) = 0
        /\ DailyCount(flow_user[f]) = MAX_DAILY_REQUESTS
        /\ \A t \in DOMAIN tasks : tasks[t].status = "failed"

(* C14: no step of the eligibility check changes the set of tasks, a field *)
(* of a task or a field of a user, whatever the check returns.             *)
C14_CheckIsReadOnly ==
    [][(\E f \in Flows :
           /\ pc[f] \in {"idle", "elig_daily"}
           /\ pc'[f] \in {"elig_daily", "eligible", "ineligible", "elig_raised"}
           /\ pc'[f] /= pc[f])
        => (tasks' = tasks /\ users' = users)]_vars

C14_Witness ==
    /\ \E f \in Flows : pc[f] = "eligible"
    /\ \E f \in Flows : pc[f] = "ineligible"
    /\ tasks /= << >>
    /\ \E u \in UserIds : u \notin DOMAIN users

(* C15: when check-then-create sequences of one user do not overlap, every *)
(* user has at most the concurrent-task limit of pending or processing     *)
(* tasks and at most the daily limit of tasks created today, in every      *)
(* reachable state.                                                        *)
C15_LimitsHoldWithoutRacingChecks ==
    \A u \in UserIds :
        /\ ActiveCount(u) <= MAX_CONCURRENT_TASKS
        /\ DailyCount(u) <= MAX_DAILY_REQUESTS

(* a step of cancel_task *)
CancelStep == cancel' /= cancel

(* cancel_task was entered with task id tid given by the caller *)
CancelEntered(tid) == CancelFree /\ CancelStep /\ cancel'.task_id = tid

Owned(u, tid) == tid \in DOMAIN tasks /\ tasks[tid].user_id = u

(* C16: cancel(u, tid) on a task owned by u that is pending or processing  *)
(* does not answer not-found or invalid-state; its write sets that task to *)
(* failed with the cancel detail, leaves the task's other fields, every    *)
(* other task and every user as they were, and the call returns success.   *)
C16_CancelSingleFailsOnlyThatTask ==
    [][/\ \A tid \in TaskIds :
            (CancelEntered(tid) /\ Owned(cancel'.user_id, tid)
               /\ tasks[tid].status \in {"pending", "processing"}) =>
                (cancel'.pc = "single_update" /\ tasks' = tasks /\ users' = users)
       /\ (cancel.pc = "single_update" /\ CancelStep) =>
             \/ /\ cancel'.pc = "done" /\ cancel'.result = "cancelled"
                /\ tasks' = [tasks EXCEPT ![cancel.task_id] =
                               [@ EXCEPT !.status = "failed",
                                         !.error_message = ErrCancelled]]
                /\ users' = users
             \/ cancel'.pc = "raised" /\ tasks' = tasks /\ users' = users]_vars

C16_Witness ==
    /\ cancel.pc = "done" /\ cancel.result = "cancelled"
    /\ \E t \in DOMAIN tasks :
          /\ tasks[t].status = "failed" /\ tasks[t].error_message = ErrCancelled
          /\ tasks[t].heygen_video_id = "vid"
    /\ \E t \in DOMAIN tasks : tasks[t].status = "processing" /\ ~cancelHit[t]

(* C17: cancel(u, tid) with a task id that names no task or a task of      *)
(* another user answers not-found, with the id of a completed or failed    *)
(* task of u it answers invalid-state, and in both cases no task and no    *)
(* user changes; no step of a cancel changes a task of a user other than   *)
(* the caller, and a cancel given the id 0, which names no task, writes    *)
(* nothing and does not return success.                                    *)
C17_CancelRejectsWithoutChange ==
    [][/\ \A tid \in TaskIds :
            (CancelEntered(tid)
               /\ (~Owned(cancel'.user_id, tid)
                     \/ tasks[tid].status \in {"completed", "failed"})) =>
                /\ cancel'.pc = "done"
                /\ cancel'.result = IF Owned(cancel'.user_id, tid)
                                    THEN "invalid_state" ELSE "not_found"
                /\ tasks' = tasks /\ users' = users
       /\ (CancelStep /\ ~CancelFree) =>
             /\ \A t \in DOMAIN tasks :
                   tasks'[t] /= tasks[t] => tasks[t].user_id = cancel.user_id
             /\ cancel.task_id = 0 =>
                   (tasks' = tasks /\ cancel'.result /= "cancelled_all")]_vars

(* C18: every write of a bulk cancel is to a task of the caller that is    *)
(* pending or processing when it is written, also when a run of that task  *)
(* ends while the bulk cancel is in progress; the write sets failed with   *)
(* the cancel detail, and the count reported is the number of tasks        *)
(* written.                                                                *)
C18_BulkCancelWritesOnlyActive ==
    [][(cancel.pc = "bulk_loop" /\ CancelStep /\ tasks' /= tasks) =>
          \A t \in DOMAIN tasks :
             tasks'[t] /= tasks[t] =>
                /\ tasks[t].user_id = cancel.user_id
                /\ tasks[t].status \in {"pending", "processing"}
                /\ tasks'[t].status = "failed"
                /\ tasks'[t].error_message = ErrCancelled]_vars

(* C21: the operation is never invoked more than max_retries times; when   *)
(* the retrier ends with a network error, every attempt failed with one,   *)
(* the operation was invoked exactly max_retries times, the error raised   *)
(* is that of the last attempt, and the retrier does nothing after it.     *)
C21_AttemptsBounded ==
    /\ [](/\ retry.calls <= retry.max_retries
          /\ (retry.pc = "raised" /\ retry.outcome \in {"TimedOut", "NetworkError"}) =>
                /\ retry.calls = retry.max_retries
                /\ retry.attempt = retry.max_retries - 1
                /\ retry.outcome = retry.last_exception)
    /\ [][/\ retry.pc = "raised" => retry' = retry
          /\ (retry.pc = "calling" /\ retry'.pc = "raised"
                /\ retry'.outcome \in {"TimedOut", "NetworkError"}) =>
                retry'.last_exception = retry'.outcome]_vars

C21_Witness ==
    /\ retry.pc = "raised" /\ retry.outcome = "NetworkError"
    /\ retry.max_retries = 4 /\ retry.calls = 4

(* every attempt of a finished call with max_retries = 4, initial_delay =  *)
(* 2 failed with a network error                                           *)
AllFourFailed ==
    /\ retry.pc = "raised" /\ retry.outcome \in {"TimedOut", "NetworkError"}
    /\ retry.max_retries = 4 /\ retry.initial_delay = 2

(* C22 as stated: with max_retries = 4, initial_delay = 2 and every        *)
(* attempt failing with a network error, the delays waited are 2, 4, 8     *)
(* and 16.                                                                 *)
C22_DelaysIncludeSixteen ==
    AllFourFailed => retry.slept = <<2, 4, 8, 16>>

(* C22 amended: the i-th delay waited is initial_delay * 2^(i - 1), one    *)
(* delay after each failed attempt but the last; with max_retries = 4,     *)
(* initial_delay = 2 and every attempt failing the delays waited are 2, 4  *)
(* and 8, and no delay follows the fourth attempt.                         *)
C22_DelaysDouble ==
    /\ \A i \in 1..Len(retry.slept) :
          retry.slept[i] = retry.initial_delay * Pow2(i - 1)
    /\ Len(retry.slept) = retry.attempt
    /\ retry.attempt <= retry.max_retries - 1 \/ retry.max_retries = 0
    /\ AllFourFailed => retry.slept = <<2, 4, 8>>

C22_Witness ==
    AllFourFailed /\ retry.slept = <<2, 4, 8>> /\ retry.calls = 4

(* C23: a flow that sent the ready message has its task stored as          *)
(* completed, and a flow that sent an error message about its task has it  *)
(* stored as failed: the status was written before the message was sent.   *)
(* No other writer runs in this specification, so the stored status is the *)
(* last one this flow's run persisted.                                     *)
C23_PersistedBeforeNotified ==
    \A f \in Flows :
        /\ pc[f] = "sent_ready" => (HasTask(f) /\ TaskOf(f).status = "completed")
        /\ (pc[f] = "sent_error" /\ HasTask(f)) => TaskOf(f).status = "failed"

(* the ready half of C23 alone *)
ReadyAfterCompletedStored ==
    \A f \in Flows :
        pc[f] = "sent_ready" => (HasTask(f) /\ TaskOf(f).status = "completed")

(* the handler of flow f holds a task id returned by create_video_task *)
Issued(f) == task_id[f] /= 0

(* flow f is inside VideoService.generate_video *)
InRun(f) ==
    pc[f] \in {"load", "submit", "save_submit_failed", "save_processing",
               "polling", "sleeping", "save_failed", "save_completed",
               "inc_read", "inc_write", "except"}

(* C27: a newly created task gets an id greater than every id handed out   *)
(* before it, so no id is given to two tasks, also after the purge deleted *)
(* failed rows; a row is stored under its id until it is deleted, and only *)
(* the purge deletes.                                                      *)
C27_IdsFreshAndIncreasing ==
    [][/\ \A n \in DOMAIN tasks' \ DOMAIN tasks :
             \A g \in Flows : Issued(g) => task_id[g] < n
       /\ \A f \in Flows : Issued(f) => task_id'[f] = task_id[f]
       /\ (\E t \in DOMAIN tasks : t \notin DOMAIN tasks') =>
             \A t \in DOMAIN tasks \ DOMAIN tasks' : tasks[t].status = "failed"]_vars

(* C24: no two calling flows hold the same task id, so run is invoked at   *)
(* most once for a task id and no two invocations for one id are in flight *)
(* together; a flow enters run only once, from the start message.          *)
C24_RunOncePerTaskId ==
    /\ [](\A f, g \in Flows : (f /= g /\ Issued(f)) => task_id[f] /= task_id[g])
    /\ [][\A f \in Flows :
             /\ (pc'[f] = "load" /\ pc[f] /= "load") => pc[f] = "notify"
             /\ (pc'[f] = "notify" /\ pc[f] /= "notify") => pc[f] = "idle"
             /\ pc[f] /= "idle" => pc'[f] /= "idle"]_vars

(* two invocations of run for one task id in flight together *)
NoTwoRunsInFlight ==
    \A f, g \in Flows : (f /= g /\ InRun(f) /\ InRun(g)) => task_id[f] /= task_id[g]

(* exactly TALKING_PHOTO_ID_LEN characters, each a lower-case hex digit *)
IsLowerHexToken(s) == Len(s) = TALKING_PHOTO_ID_LEN /\ \A i \in 1..Len(s) : s[i] \in HexChars

(* the row of the conversation's task *)
ConvTask == tasks[conv.task_id]

(* C25: an accepted character token is stored with the talking-photo       *)
(* prefix exactly when it is TALKING_PHOTO_ID_LEN lower-case hex           *)
(* characters, and unprefixed otherwise; the prefix is put on before the   *)
(* task is created and the row holds it; run submits the row as a talking  *)
(* photo exactly when the row holds the prefix, and the id it submits is   *)
(* the token as the user sent it.                                          *)
C25_ClassifiedOnceAndRoundTrip ==
    /\ conv.token /= NoString =>
          conv.avatar_id = IF IsLowerHexToken(conv.token)
                           THEN TalkingPhotoPrefix \o conv.token ELSE conv.token
    /\ conv.task_id \in DOMAIN tasks =>
          /\ ConvTask.avatar_id = conv.avatar_id
          /\ StartsWith(ConvTask.avatar_id, TalkingPhotoPrefix) <=> IsLowerHexToken(conv.token)
    /\ conv.submitted.kind /= None =>
          /\ conv.submitted.kind = IF IsLowerHexToken(conv.token)
                                   THEN "talking_photo" ELSE "avatar"
          /\ conv.submitted.id = conv.token

C25_Witness ==
    /\ conv.submitted.kind = "talking_photo"
    /\ conv.submitted.id = <<"a", "7">>
    /\ ConvTask.avatar_id = <<"g", ":", "a", "7">>

(* a reference of 1..MAX_ID_LENGTH letters, digits, '_' and '-' *)
GoodReference(s) ==
    /\ s /= << >>
    /\ Len(s) <= MAX_ID_LENGTH
    /\ \A i \in 1..Len(s) : s[i] \in IdChars

(* a text of 1..MAX_TEXT_LENGTH characters, not all of them blank *)
GoodText(s) ==
    /\ Len(s) <= MAX_TEXT_LENGTH
    /\ \E i \in 1..Len(s) : s[i] \notin Whitespace

(* C26: every task is created from a well-formed request: its character    *)
(* and voice references are non-empty, within MAX_ID_LENGTH and made of    *)
(* letters, digits, '_' and '-', its text is non-blank and within          *)
(* MAX_TEXT_LENGTH; a handler that answers with a validation error         *)
(* re-prompts, creates no task and leaves the tasks as they are.           *)
C26_NoTaskFromMalformedInput ==
    /\ [](\A t \in DOMAIN tasks :
             /\ GoodReference(RemoveAll(tasks[t].avatar_id, TalkingPhotoPrefix))
             /\ GoodReference(tasks[t].voice_id)
             /\ GoodText(tasks[t].input_text))
    /\ [][/\ (conv'.reply = "reprompt" /\ conv' /= conv) =>
                (tasks' = tasks /\ users' = users /\ conv'.state = conv.state)
          /\ tasks' /= tasks =>
                /\ GoodReference(conv'.token)
                /\ conv'.reply = "started"]_vars

C26_Witness ==
    /\ conv.reply = "reprompt"
    /\ conv.state = "TEXT_INPUT"
    /\ tasks = << >>

(* C28: no call of get_or_create_user ends with an error, a call that      *)
(* returned leaves the user's row in the table, and no call changes the    *)
(* counter or the last-request time of a row that was already there.       *)
C28_GetOrCreateIdempotent ==
    /\ [](\A f \in Flows :
             /\ pc[f] /= "user_raised"
             /\ pc[f] = "user_returned" => flow_user[f] \in DOMAIN users)
    /\ [][\A u \in DOMAIN users : u \in DOMAIN users' /\ users'[u] = users[u]]_vars

(* the same without the error-free part: one row per id, rows untouched *)
OneRowPerUserUntouched ==
    /\ [](\A f \in Flows :
             pc[f] = "user_returned" => flow_user[f] \in DOMAIN users)
    /\ [][\A u \in DOMAIN users : u \in DOMAIN users' /\ users'[u] = users[u]]_vars

(* C29: a run whose load finds no row for its task id returns not-found    *)
(* (or ends with the error of the load when the repository read raises);   *)
(* it calls the provider not once and changes no task and no user, in that *)
(* step and in the whole run.                                              *)
C29_MissingTaskNotFound ==
    /\ [](\A f \in Flows :
             (pc[f] = "returned" /\ result[f] = "not_found") =>
                (submits[f] = 0 /\ incs[f] = 0))
    /\ [][\A f \in Flows :
             (pc[f] = "load" /\ task_id[f] \notin DOMAIN tasks /\ pc'[f] /= pc[f]) =>
                /\ \/ pc'[f] = "returned" /\ result'[f] = "not_found"
                   \/ pc'[f] = "raised"
                /\ tasks' = tasks
                /\ users' = users
                /\ submits' = submits]_vars

C29_Witness ==
    \E f \in Flows :
        /\ pc[f] = "returned" /\ result[f] = "not_found"
        /\ task_id[f] \notin DOMAIN tasks
        /\ submits[f] = 0

(* the tasks of the user the last /status answered, pending or processing *)
SummaryOwnActive ==
    {t \in DOMAIN tasks :
        /\ tasks[t].user_id = conv.summary.user_id
        /\ tasks[t].status \in {"pending", "processing"}}

(* the message lists exactly those tasks, one entry each *)
SummaryListsOwnActive ==
    /\ {e.task_id : e \in conv.summary.entries} = SummaryOwnActive
    /\ Cardinality(conv.summary.entries) = Cardinality(SummaryOwnActive)

IsPrefix(p, s) == Len(p) <= Len(s) /\ SubSeq(s, 1, Len(p)) = p

(* C30 as stated: the status message lists exactly the user's pending and  *)
(* processing tasks, each with a preview that is a prefix of at most       *)
(* PREVIEW_LENGTH characters of its text, and /status changes no task and  *)
(* no user.                                                                *)
C30_SummaryPreviewIsPrefix ==
    /\ [](conv.reply = "status" =>
             /\ SummaryListsOwnActive
             /\ \A e \in conv.summary.entries :
                   /\ Len(e.text_preview) <= PREVIEW_LENGTH
                   /\ IsPrefix(e.text_preview, tasks[e.task_id].input_text))
    /\ [][tasks' = tasks /\ users' = users]_vars

(* C30 amended: the status message lists exactly the user's pending and    *)
(* processing tasks; the preview of a text of at most PREVIEW_LENGTH       *)
(* characters is the text, that of a longer text is its first              *)
(* PREVIEW_LENGTH characters followed by "..."; /status changes no task    *)
(* and no user.                                                            *)
C30_SummaryPreviewCutWithEllipsis ==
    /\ [](conv.reply = "status" =>
             /\ SummaryListsOwnActive
             /\ \A e \in conv.summary.entries :
                   LET text == tasks[e.task_id].input_text
                   IN /\ Len(text) <= PREVIEW_LENGTH => e.text_preview = text
                      /\ Len(text) > PREVIEW_LENGTH =>
                            /\ Len(e.text_preview) = PREVIEW_LENGTH + 3
                            /\ \A i \in 1..PREVIEW_LENGTH : e.text_preview[i] = text[i]
                            /\ \A i \in 1..3 : e.text_preview[PREVIEW_LENGTH + i] = "."
                   /\ e.status_text = IF tasks[e.task_id].status = "pending"
                                      THEN "queued" ELSE "generating")
    /\ [][tasks' = tasks /\ users' = users]_vars

C30_Witness ==
    /\ conv.reply = "status"
    /\ Cardinality(conv.summary.entries) = 2
    /\ \E e \in conv.summary.entries : e.text_preview = <<"x", "y", ".", ".", ".">>
    /\ \E t \in DOMAIN tasks :
          tasks[t].user_id /= conv.summary.user_id \/ tasks[t].status \in TerminalStatuses

(* C33: a task stored as completed has an asset locator and a provider     *)
(* render id; a run whose polls ended with the provider reporting          *)
(* completed without a locator goes to the failed write, not the           *)
(* completed one.                                                          *)
C33_CompletedHasUrlAndRenderId ==
    /\ [](\A t \in DOMAIN tasks :
             tasks[t].status = "completed" =>
                (Truthy(tasks[t].video_url) /\ Truthy(tasks[t].heygen_video_id)))
    /\ [][\A f \in Flows :
             (pc[f] = "polling" /\ pc'[f] = "save_completed") =>
                Truthy(status_data'[f].video_url)]_vars

CompletedCount(u) ==
    Cardinality({t \in DOMAIN tasks :
                    tasks[t].user_id = u /\ tasks[t].status = "completed"})

(* no run is between its load and its return, no cancel between its read   *)
(* and its last write                                                      *)
Quiescent == CancelFree /\ \A f \in Flows : ~InRun(f)

(* C32: with no purge run, whenever no run and no cancel is under way each *)
(* user's total_videos_generated equals the number of that user's tasks    *)
(* stored as completed, and no run adds to the counter for a task that is  *)
(* stored as failed at the moment of the addition.                         *)
C32_CounterEqualsCompleted ==
    /\ [](Quiescent =>
            \A u \in DOMAIN users : users[u].total_videos_generated = CompletedCount(u))
    /\ [][\A f \in Flows :
            (pc[f] = "inc_write" /\ incs'[f] = incs[f] + 1 /\ HasTask(f)) =>
                TaskOf(f).status /= "failed"]_vars

(* the handler of flow f has gone through the success branch to its end *)
DeliveryEnded(f) == pc[f] \in {"delivery_over", "sent_error", "handler_raised"}

StagedFor(f) == {p \in files : p[1] = task_id[f]}

(* C31: once the handler of a run that returned success has ended, whether *)
(* the asset was sent, the retries were exhausted, the send failed with a  *)
(* non-transient error or the fetch failed part-way, no file staged for    *)
(* that task is left on disk.                                              *)
C31_NoStagedFileAfterDelivery ==
    \A f \in Flows : (DeliveryEnded(f) /\ Issued(f)) => StagedFor(f) = {}

(* C35: when a run returns success its task is stored as completed at that *)
(* moment and is still completed when download_task_video reads it,        *)
(* whatever single or bulk cancel runs beside it; the download is entered  *)
(* only for a task stored as completed with a locator.                     *)
C35_SuccessStaysCompletedUntilRead ==
    [][\A f \in Flows :
          /\ (pc[f] /= "returned" /\ pc'[f] = "returned" /\ result'[f] = "success") =>
                (task_id[f] \in DOMAIN tasks' /\ tasks'[task_id[f]].status = "completed")
          /\ (pc[f] = "sent_ready" /\ pc'[f] \in {"downloading", "no_video"}) =>
                (HasTask(f) /\ TaskOf(f).status = "completed")
          /\ (pc[f] = "sent_ready" /\ pc'[f] = "downloading") =>
                (TaskOf(f).status = "completed" /\ Truthy(TaskOf(f).video_url))]_vars

(* C36: a run that loads a task already stored as completed or failed,     *)
(* such as one cancelled while pending, does not go on to the provider's   *)
(* submit call; a task stored as failed is never stored as processing      *)
(* afterwards.                                                             *)
C36_TerminalTaskNotSubmitted ==
    [][/\ \A f \in Flows :
            (pc[f] = "load" /\ HasTask(f) /\ TaskOf(f).status \in TerminalStatuses) =>
                pc'[f] /= "submit"
       /\ \A t \in DOMAIN tasks \cap DOMAIN tasks' :
            tasks[t].status = "failed" => tasks'[t].status /= "processing"]_vars

(* a write of cancel_task reached the table in this step *)
CancelWrote ==
    /\ cancel.pc \in {"single_update", "bulk_loop"}
    /\ cancel' /= cancel
    /\ cancel'.pc /= "raised"

(* cancel_task returns success in this step *)
CancelSucceeded ==
    /\ CancelWrote
    /\ cancel'.pc = "done"

(* C37: when a cancel returns success, the tasks of the cancelling user    *)
(* that it wrote to are no longer among the user's pending or processing   *)
(* tasks, so the active count has fallen by the number cancelled; and no   *)
(* write of a cancel changes any user's number of tasks created today.     *)
C37_CancelLowersActiveKeepsDaily ==
    [][/\ CancelSucceeded =>
             \A t \in DOMAIN tasks' :
                (tasks'[t].user_id = cancel.user_id /\ cancelHit'[t]) =>
                    t \notin GetUserActiveTasks(tasks', cancel.user_id)
       /\ CancelWrote =>
             \A u \in UserIds :
                GetUserDailyRequests(tasks', u) = GetUserDailyRequests(tasks, u)]_vars

(* the purge deleted rows in this step *)
Purging == DOMAIN tasks' /= DOMAIN tasks /\ DOMAIN tasks' \subseteq DOMAIN tasks

FailedToday(u) ==
    {t \in DOMAIN tasks :
        tasks[t].user_id = u /\ tasks[t].status = "failed" /\ tasks[t].created_at = "today"}

C34_EveryTaskEventuallyTerminal ==
    \A t \in TaskIds :
        (t \in DOMAIN tasks) ~>
            (t \in DOMAIN tasks /\ tasks[t].status \in TerminalStatuses)

====
